---- MODULE Spec2Model ----
(***************************************************************************)
(* Model of the SeaFlow dashboard templating scripts:                      *)
(*   template-dash.py          read_date_range, template_dash, __main__    *)
(*   template-dash-realtime.py template_dash, __main__                     *)
(*                                                                         *)
(* Strings are sequences of characters.  A character of a TSDATA line is   *)
(* its code point (so that < on characters is Python's string order); a    *)
(* character of a file name is a one-character string.                     *)
(***************************************************************************)
EXTENDS Integers, Sequences, FiniteSets, TLC

\* ---------------------------------------------------------------- bounds
\* most data lines (lines past the header) a modelled TSDATA file holds
MaxData == 3
\* most characters of a line, its newline not counted
MaxLineLen == 2

\* ------------------------------------------------------ program constants
\* "\t", the delimiter of line.split("\t")
TAB == 9
\* "\n", which file iteration keeps at the end of every line
NL == 10
\* the literal of `if i > 6`
HeaderSkip == 6

\* characters a line is made of, besides its newline: tab and "A"
LineChars == {TAB, 65}

\* contents of the header lines of the modelled files, newline not counted:
\* "A" and "\tA" (had the scan read them, their stamps would be "A\n" and "")
HeaderContents == {<<65>>, <<TAB>>}

\* ----------------------------------------------------------------- strings
SeqsUpTo(S, n) == UNION {[1..k -> S] : k \in 0..n}

\* contents of the data lines, newline not counted
LineContents == SeqsUpTo(LineChars, MaxLineLen)

\* Python's str < str: code point order, a proper prefix is smaller
StrLess(a, b) ==
    \E k \in 1..Len(b) :
        /\ \A j \in 1..(k - 1) : j <= Len(a) /\ a[j] = b[j]
        /\ (k > Len(a) \/ a[k] < b[k])

StrLeq(a, b) == a = b \/ StrLess(a, b)

\* position of the first tab of s, or 0
FirstTab(s) ==
    IF \E k \in 1..Len(s) : s[k] = TAB
    THEN CHOOSE k \in 1..Len(s) : s[k] = TAB /\ \A j \in 1..(k - 1) : s[j] # TAB
    ELSE 0

\* line.split("\t"): the fields between the tabs; there is always at least one
RECURSIVE Split(_)
Split(s) ==
    LET t == FirstTab(s) IN
    IF t = 0 THEN <<s>>
    ELSE <<SubSeq(s, 1, t - 1)>> \o Split(SubSeq(s, t + 1, Len(s)))

\* ---------------------------------------------------------- read_date_range
\* The body of the for loop for line number i (zero-based) and the
\* accumulators acc = [min |-> min_stamp, max |-> max_stamp].
\* err is "EmptyData" when the body raises ValueError("No data found ...").
\* (variants of ScanLine with the header boundary off by one, against which
\* the properties below are tested, come first)
ScanLineSkip5(i, acc, line) ==
    IF i > HeaderSkip - 1
    THEN LET fields == Split(line) IN
         IF Len(fields) = 0
         THEN [min |-> acc.min, max |-> acc.max, err |-> "EmptyData"]
         ELSE LET stamp == fields[1] IN
              [min |-> IF acc.min = <<>> \/ StrLess(stamp, acc.min) THEN stamp ELSE acc.min,
               max |-> IF acc.max = <<>> \/ StrLess(acc.max, stamp) THEN stamp ELSE acc.max,
               err |-> "none"]
    ELSE [min |-> acc.min, max |-> acc.max, err |-> "none"]

ScanLineSkip7(i, acc, line) ==
    IF i > HeaderSkip + 1
    THEN LET fields == Split(line) IN
         IF Len(fields) = 0
         THEN [min |-> acc.min, max |-> acc.max, err |-> "EmptyData"]
         ELSE LET stamp == fields[1] IN
              [min |-> IF acc.min = <<>> \/ StrLess(acc.min, stamp) THEN stamp ELSE acc.min,
               max |-> IF acc.max = <<>> \/ StrLess(acc.max, stamp) THEN stamp ELSE acc.max,
               err |-> "none"]
    ELSE [min |-> acc.min, max |-> acc.max, err |-> "none"]

ScanLine(i, acc, line) ==
    IF i > HeaderSkip
    THEN LET fields == Split(line) IN
         IF Len(fields) = 0
         THEN [min |-> acc.min, max |-> acc.max, err |-> "EmptyData"]
         ELSE LET stamp == fields[1] IN
              [min |-> IF acc.min = <<>> \/ StrLess(stamp, acc.min) THEN stamp ELSE acc.min,
               max |-> IF acc.max = <<>> \/ StrLess(acc.max, stamp) THEN stamp ELSE acc.max,
               err |-> "none"]
    ELSE [min |-> acc.min, max |-> acc.max, err |-> "none"]

\* The check after the with block: what read_date_range ends with.
FinalCheck(acc) ==
    IF acc.min = <<>> \/ acc.max = <<>>
    THEN [kind |-> "raised", error |-> "NoDataFound", min |-> <<>>, max |-> <<>>]
    ELSE [kind |-> "returned", error |-> "none", min |-> acc.min, max |-> acc.max]

\* read_date_range on a whole file (a sequence of lines), from line k on
RECURSIVE ScanFrom(_, _, _)
ScanFrom(file, k, acc) ==
    IF k > Len(file) THEN FinalCheck(acc)
    ELSE LET r == ScanLine(k - 1, acc, file[k]) IN
         IF r.err # "none"
         THEN [kind |-> "raised", error |-> r.err, min |-> <<>>, max |-> <<>>]
         ELSE ScanFrom(file, k + 1, [min |-> r.min, max |-> r.max])

ReadDateRange(file) == ScanFrom(file, 1, [min |-> <<>>, max |-> <<>>])

\* ------------------------------------------------------------------ state
VARIABLES
    pc,             \* where the run is
    fh,             \* the TSDATA file handle: "unopened", "open", "closed"
    i,              \* enumerate's index of the next line = lines read so far
    lines,          \* the lines of the TSDATA file read so far, in order
    last,           \* the line just read had no newline: the file ends here
    min_stamp,      \* read_date_range's accumulators
    max_stamp,
    error,          \* the ValueError raised: "none", "EmptyData", "NoDataFound"
    script,         \* "scan" (read_date_range alone), "dash", "realtime"
    in_dash_file,   \* argument template_file
    arg,            \* argument underway_file (dash) or cruise (realtime)
    cruise,         \* the cruise name template_dash works with
    out_dash_file,  \* the output path template_dash computes
    dash,           \* the dashboard document in memory
    dirs,           \* the directories that exist
    files,          \* the files that exist under the output directory
    files0,         \* files, as they were before the run
    exit_status     \* the process's exit status, "running" until it ends

scanVars == <<fh, i, lines, last, min_stamp, max_stamp, error>>
dashVars == <<script, in_dash_file, arg, cruise, out_dash_file, dash, dirs, files,
              files0, exit_status>>
vars == <<pc, scanVars, dashVars>>

\* (a variant of WithExit that leaves the handle as it is)
WithExitLeak(h) == h

\* the with statement's exit: the handle is closed, however the block ends
WithExit(h) == "closed"

InitScanVars ==
    /\ fh = "unopened"
    /\ i = 0
    /\ lines = <<>>
    /\ last = FALSE
    /\ min_stamp = <<>>
    /\ max_stamp = <<>>
    /\ error = "none"

\* read_date_range called on its own
InitScan ==
    /\ pc = "rdr_open"
    /\ InitScanVars
    /\ script = "scan"
    /\ in_dash_file = <<>>
    /\ arg = <<>>
    /\ cruise = <<>>
    /\ out_dash_file = <<>>
    /\ dash = <<>>
    /\ dirs = {}
    /\ files = {}
    /\ files0 = {}
    /\ exit_status = "running"

\* with Path(tsdata).open() as fh
OpenTsdata ==
    /\ pc = "rdr_open"
    /\ fh' = "open"
    /\ pc' = "rdr_loop"
    /\ UNCHANGED <<i, lines, last, min_stamp, max_stamp, error, dashVars>>

\* One iteration of `for i, line in enumerate(fh)`: the file yields the line
\* made of content c, with its newline (nl) or, for a last line, without.
ReadLineWith(c, nl) ==
    /\ pc = "rdr_loop"
    /\ fh = "open"
    /\ ~last
    /\ nl \/ c # <<>>
    /\ LET line == IF nl THEN c \o <<NL>> ELSE c
           r == ScanLine(i, [min |-> min_stamp, max |-> max_stamp], line)
       IN  /\ lines' = Append(lines, line)
           /\ i' = i + 1
           /\ last' = ~nl
           /\ min_stamp' = r.min
           /\ max_stamp' = r.max
           /\ IF r.err # "none"
              THEN /\ error' = r.err
                   /\ fh' = WithExit(fh)
                   /\ pc' = "rdr_raised"
              ELSE /\ error' = error
                   /\ fh' = fh
                   /\ pc' = "rdr_loop"
    /\ UNCHANGED dashVars

\* the next line of a file of arbitrary content
ReadLine ==
    /\ i < HeaderSkip + 1 + MaxData
    /\ \E c \in (IF i <= HeaderSkip THEN HeaderContents ELSE LineContents) :
          \E nl \in BOOLEAN : ReadLineWith(c, nl)

\* the file has no more lines: the for loop and the with block end
EndOfFile ==
    /\ pc = "rdr_loop"
    /\ fh = "open"
    /\ fh' = WithExit(fh)
    /\ pc' = "rdr_check"
    /\ UNCHANGED <<i, lines, last, min_stamp, max_stamp, error, dashVars>>

\* `if not min_stamp or not max_stamp: raise ...` and the return
CheckAndReturn ==
    /\ pc = "rdr_check"
    /\ LET f == FinalCheck([min |-> min_stamp, max |-> max_stamp])
       IN  /\ pc' = IF f.kind = "raised" THEN "rdr_raised" ELSE "rdr_returned"
           /\ error' = f.error
    /\ UNCHANGED <<fh, i, lines, last, min_stamp, max_stamp, dashVars>>

NextScan == OpenTsdata \/ ReadLine \/ EndOfFile \/ CheckAndReturn

SpecScan == InitScan /\ [][NextScan]_vars

TypeOKScan ==
    /\ pc \in {"rdr_open", "rdr_loop", "rdr_check", "rdr_returned", "rdr_raised"}
    /\ i = Len(lines)

\* ------------------------------------------------- read_date_range: claims
\* the first tab-delimited field of a line
FirstField(line) == Split(line)[1]

\* the positions in lines of the data lines: zero-based index 7 and higher
DataIdx == (HeaderSkip + 2)..Len(lines)

DataStamps == {FirstField(lines[k]) : k \in DataIdx}

ScanEnded == pc \in {"rdr_returned", "rdr_raised"}

\* what the finished scan gave its caller
Outcome ==
    IF pc = "rdr_returned"
    THEN [kind |-> "returned", error |-> "none", min |-> min_stamp, max |-> max_stamp]
    ELSE [kind |-> "raised", error |-> error, min |-> <<>>, max |-> <<>>]

\* C1: when read_date_range returns (min_stamp, max_stamp), min_stamp is the
\* smallest and max_stamp the largest first field among all the lines at index
\* 7 or higher, in plain string order.
C1_MinMaxOfAllData ==
    pc = "rdr_returned" =>
        /\ min_stamp \in DataStamps
        /\ max_stamp \in DataStamps
        /\ \A s \in DataStamps : StrLeq(min_stamp, s) /\ StrLeq(s, max_stamp)

\* C2: when read_date_range returns (earliest, latest), earliest <= latest in
\* string order and both are the first field of some line at index 7 or
\* higher, also when some data lines have an empty first field.
C2_RangeOrderedAndFromData ==
    pc = "rdr_returned" =>
        /\ StrLeq(min_stamp, max_stamp)
        /\ min_stamp \in DataStamps
        /\ max_stamp \in DataStamps

\* a scan that returned two different stamps from a file one of whose data
\* lines has an empty first field
C2_Witness ==
    /\ pc = "rdr_returned"
    /\ <<>> \in DataStamps
    /\ StrLess(min_stamp, max_stamp)

\* C3: the scan raises NoDataFoundError exactly when no line past the header
\* has a non-empty first field; whenever some line at index 7 or higher has a
\* non-empty first field it returns a range.
C3_NoDataFoundIffNoCandidate ==
    ScanEnded =>
        /\ (pc = "rdr_raised" /\ error = "NoDataFound") <=> (DataStamps \subseteq {<<>>})
        /\ (DataStamps \subseteq {<<>>}) \/ pc = "rdr_returned"

\* the data lines of the file in the order p (a permutation of DataIdx)
Reordered(p) ==
    [k \in 1..Len(lines) |-> IF k \in DataIdx THEN lines[p[k]] ELSE lines[k]]

\* C4: the outcome does not depend on the order of the data lines: every file
\* with the same header whose data lines are a permutation of this file's
\* gives the same pair, or an error as well.  (Files all of whose lines end
\* with a newline, so that every permutation is a file.)
C4_OrderIndependent ==
    (ScanEnded /\ ~last) =>
        \A p \in Permutations(DataIdx) :
            LET o == ReadDateRange(Reordered(p)) IN
            /\ o.kind = Outcome.kind
            /\ o.kind = "returned" => o = Outcome

C7_EmptyFirstFieldRaises ==
    \A k \in DataIdx :
        FirstField(lines[k]) = <<>> =>
            (pc = "rdr_raised" /\ error = "EmptyData" /\ Len(lines) = k)

\* C8: the file handle is closed in every state after the scan loop, however
\* it ended, and is open only while lines are being scanned.
C8_HandleReleased ==
    /\ pc \in {"rdr_check", "rdr_returned", "rdr_raised"} => fh = "closed"
    /\ fh = "open" => pc = "rdr_loop"
    /\ pc = "rdr_open" => fh = "unopened"

\* NoDataFoundError raised after data lines were scanned, the handle closed
C8_Witness ==
    /\ pc = "rdr_raised"
    /\ error = "NoDataFound"
    /\ Len(lines) > HeaderSkip + 1
    /\ fh = "closed"

\* ----------------------------------------------------- file names and paths
\* the text "CRUISE" that both scripts replace, and other literals
CRUISE == <<"C", "R", "U", "I", "S", "E">>
GeoSuffix == <<"-", "g", "e", "o">>
DotJson == <<".", "j", "s", "o", "n">>
CruiseVarName == <<"c", "r", "u", "i", "s", "e">>

\* the out_dir argument of the modelled runs: "out"
OutDir == <<"o", "u", "t">>

\* the template_file arguments of the modelled runs:
\* "CRUISE.json" and "d/CRUISE-Ops.json"
TemplateFiles == {<<"C", "R", "U", "I", "S", "E", ".", "j", "s", "o", "n">>, <<"d", "/", "C", "R", "U", "I", "S", "E", "-", "O", "p", "s", ".", "j", "s", "o", "n">>}

\* the underway_file arguments of the modelled runs of template-dash.py:
\* "u/KM-geo.tsdata", "KM.v2.tsdata" and ".tsdata"
UnderwayFiles == {<<"u", "/", "K", "M", "-", "g", "e", "o", ".", "t", "s", "d", "a", "t", "a">>, <<"K", "M", ".", "v", "2", ".", "t", "s", "d", "a", "t", "a">>, <<".", "t", "s", "d", "a", "t", "a">>}

\* the cruise arguments of the modelled runs of template-dash-realtime.py:
\* "KM", "" and "a/b"
CruiseArgs == {<<"K", "M">>, <<>>, <<"a", "/", "b">>}

\* contents of the lines of the underway file in the runs of template-dash.py
\* ("A", "B\tA", "\tA"); every line ends with a newline
DashLineContents == {<<65>>, <<66, TAB, 65>>, <<TAB, 65>>}

StartsWith(s, t) == Len(s) >= Len(t) /\ SubSeq(s, 1, Len(t)) = t

Tail2(s, n) == SubSeq(s, n + 1, Len(s))

\* str.replace(old, new) for a non-empty old: every occurrence, left to right
RECURSIVE Replace(_, _, _)
Replace(s, old, new) ==
    IF s = <<>> THEN <<>>
    ELSE IF StartsWith(s, old) THEN new \o Replace(Tail2(s, Len(old)), old, new)
    ELSE <<Head(s)>> \o Replace(Tail(s), old, new)

\* position of the last character ch of s, or 0
LastPos(s, ch) ==
    IF \E k \in 1..Len(s) : s[k] = ch
    THEN CHOOSE k \in 1..Len(s) : s[k] = ch /\ \A j \in (k + 1)..Len(s) : s[j] # ch
    ELSE 0

\* position of the first character ch of s, or 0
FirstPos(s, ch) ==
    IF \E k \in 1..Len(s) : s[k] = ch
    THEN CHOOSE k \in 1..Len(s) : s[k] = ch /\ \A j \in 1..(k - 1) : s[j] # ch
    ELSE 0

\* Path(p).name: the last component (of a path written without "." or ".."
\* components, doubled or trailing slashes)
PathName(p) == Tail2(p, LastPos(p, "/"))

\* Path(p).parent of a path with a directory part
PathParent(p) == SubSeq(p, 1, LastPos(p, "/") - 1)

\* Path(p).stem: the name up to its last dot, unless that dot is the first or
\* the last character of the name
PathStem(p) ==
    LET name == PathName(p)
        k == LastPos(name, ".")
    IN  IF 1 < k /\ k < Len(name) THEN SubSeq(name, 1, k - 1) ELSE name

\* dir / Path(rel): rel replaces dir when it is absolute, and adds nothing
\* when it is empty
JoinPath(dir, rel) ==
    IF rel = <<>> THEN dir
    ELSE IF Head(rel) = "/" THEN rel
    ELSE dir \o <<"/">> \o rel

\* fn.name.split(".")[0]
FirstPart(name) ==
    LET k == FirstPos(name, ".") IN
    IF k = 0 THEN name ELSE SubSeq(name, 1, k - 1)

get_cruise_from_underway_filename(fn) ==
    Replace(FirstPart(PathName(fn)), GeoSuffix, <<>>)

\* out_dir / Path(in_dash_file.name.replace("CRUISE", cruise))
OutDashFile(template, c) ==
    JoinPath(OutDir, Replace(PathName(template), CRUISE, c))

\* ------------------------------------------------------ dashboard documents
\* the template dashboard json.load gives: title "CRUISE Ops", time range
\* "now" to "now", template variables "cruise" and "pop"
TemplateDoc ==
    [title |-> <<"C", "R", "U", "I", "S", "E", " ", "O", "p", "s">>,
     uid |-> <<"t", "m", "p", "l">>,
     time |-> [from |-> <<110, 111, 119>>, to |-> <<110, 111, 119>>],
     templating |-> <<[name |-> CruiseVarName, text |-> <<"X">>, value |-> <<"X">>],
                      [name |-> <<"p", "o", "p">>, text |-> <<"X">>, value |-> <<"X">>]>>]

\* what a file left by an earlier run holds
OldDoc == [TemplateDoc EXCEPT !.uid = <<"o", "l", "d">>]

replace_time_range(d, from_time, to_time) ==
    [d EXCEPT !.time = [from |-> from_time, to |-> to_time]]

replace_cruise(d, c) ==
    [d EXCEPT !.title = Replace(d.title, CRUISE, c),
              !.templating =
                  [k \in DOMAIN d.templating |->
                      IF d.templating[k].name = CruiseVarName
                      THEN [d.templating[k] EXCEPT !.text = c, !.value = c]
                      ELSE d.templating[k]]]

replace_uid(d, uid) == [d EXCEPT !.uid = uid]

\* ------------------------------------------- template_dash and __main__
\* The file system before a run that will write to path p: nothing there,
\* the directories there, or the output of an earlier run there.
FileSystems(p) ==
    {[dirs |-> {}, files |-> {}],
     [dirs |-> {OutDir, PathParent(p)}, files |-> {}],
     [dirs |-> {OutDir, PathParent(p)}, files |-> {[path |-> p, content |-> OldDoc]}]}

\* a command-line run of template-dash.py or of template-dash-realtime.py
InitDash ==
    /\ pc = "td_mkdir"
    /\ InitScanVars
    /\ script \in {"dash", "realtime"}
    /\ in_dash_file \in TemplateFiles
    /\ arg \in (IF script = "dash" THEN UnderwayFiles ELSE CruiseArgs)
    /\ cruise = <<>>
    /\ out_dash_file = <<>>
    /\ dash = TemplateDoc
    /\ LET c == IF script = "dash" THEN get_cruise_from_underway_filename(arg) ELSE arg
       IN  \E fs \in FileSystems(OutDashFile(in_dash_file, c)) :
               /\ dirs = fs.dirs
               /\ files = fs.files
               /\ files0 = fs.files
    /\ exit_status = "running"

\* out_dir.mkdir(parents=True, exist_ok=True)
Mkdir ==
    /\ pc = "td_mkdir"
    /\ dirs' = dirs \cup {OutDir}
    /\ pc' = "td_names"
    /\ UNCHANGED <<scanVars, script, in_dash_file, arg, cruise, out_dash_file, dash,
                   files, files0, exit_status>>

\* the cruise name (template-dash.py takes it from the underway file's name)
\* and the output file's path
ComputeNames ==
    /\ pc = "td_names"
    /\ LET c == IF script = "dash" THEN get_cruise_from_underway_filename(arg) ELSE arg
       IN  /\ cruise' = c
           /\ out_dash_file' = OutDashFile(in_dash_file, c)
    /\ pc' = "td_load"
    /\ UNCHANGED <<scanVars, script, in_dash_file, arg, dash, dirs, files, files0,
                   exit_status>>

\* json.load of the template; template-dash.py goes on to read_date_range
LoadDash ==
    /\ pc = "td_load"
    /\ dash' = TemplateDoc
    /\ pc' = IF script = "dash" THEN "rdr_open" ELSE "td_cruise"
    /\ UNCHANGED <<scanVars, script, in_dash_file, arg, cruise, out_dash_file, dirs,
                   files, files0, exit_status>>

\* the next line of the underway file
DashReadLine ==
    /\ i < HeaderSkip + 1 + MaxData
    /\ \E c \in (IF i <= HeaderSkip THEN {<<65>>} ELSE DashLineContents) :
          ReadLineWith(c, TRUE)

\* replace_time_range(dash, *read_date_range(underway_file))
ReplaceTimeRange ==
    /\ pc = "rdr_returned"
    /\ dash' = replace_time_range(dash, min_stamp, max_stamp)
    /\ pc' = "td_cruise"
    /\ UNCHANGED <<scanVars, script, in_dash_file, arg, cruise, out_dash_file, dirs,
                   files, files0, exit_status>>

\* (a variant of PropagateError in which template_dash goes on after the error)
PropagateErrorSwallowed ==
    /\ pc = "rdr_raised"
    /\ pc' = "td_cruise"
    /\ UNCHANGED <<scanVars, dashVars>>

\* read_date_range raised: the rest of template_dash is skipped
PropagateError ==
    /\ pc = "rdr_raised"
    /\ pc' = "main_except"
    /\ UNCHANGED <<scanVars, dashVars>>

ReplaceCruise ==
    /\ pc = "td_cruise"
    /\ dash' = replace_cruise(dash, cruise)
    /\ pc' = "td_uid"
    /\ UNCHANGED <<scanVars, script, in_dash_file, arg, cruise, out_dash_file, dirs,
                   files, files0, exit_status>>

\* replace_uid(dash, out_dash_file.stem)
ReplaceUid ==
    /\ pc = "td_uid"
    /\ dash' = replace_uid(dash, PathStem(out_dash_file))
    /\ pc' = "td_write"
    /\ UNCHANGED <<scanVars, script, in_dash_file, arg, cruise, out_dash_file, dirs,
                   files, files0, exit_status>>

\* Path(out_dash_file).open("wt") and the write; open raises OSError when the
\* file's directory does not exist
WriteDash ==
    /\ pc = "td_write"
    /\ IF PathParent(out_dash_file) \in dirs
       THEN /\ files' = {f \in files : f.path # out_dash_file}
                           \cup {[path |-> out_dash_file, content |-> dash]}
            /\ error' = error
            /\ pc' = "td_done"
       ELSE /\ files' = files
            /\ error' = "OSError"
            /\ pc' = "main_except"
    /\ UNCHANGED <<fh, i, lines, last, min_stamp, max_stamp, script, in_dash_file, arg,
                   cruise, out_dash_file, dash, dirs, files0, exit_status>>

\* except Exception: print(...); sys.exit(1)
MainExcept ==
    /\ pc = "main_except"
    /\ exit_status' = 1
    /\ pc' = "exited"
    /\ UNCHANGED <<scanVars, script, in_dash_file, arg, cruise, out_dash_file, dash,
                   dirs, files, files0>>

\* template_dash returned: the script ends with status 0
MainEnd ==
    /\ pc = "td_done"
    /\ exit_status' = 0
    /\ pc' = "exited"
    /\ UNCHANGED <<scanVars, script, in_dash_file, arg, cruise, out_dash_file, dash,
                   dirs, files, files0>>

NextDash ==
    \/ Mkdir \/ ComputeNames \/ LoadDash
    \/ OpenTsdata \/ DashReadLine \/ EndOfFile \/ CheckAndReturn
    \/ ReplaceTimeRange \/ PropagateError
    \/ ReplaceCruise \/ ReplaceUid \/ WriteDash
    \/ MainExcept \/ MainEnd

SpecDash == InitDash /\ [][NextDash]_vars

\* ---------------------------------------------------- template_dash: claims
\* the template file's name without a .json extension
WithoutDotJson(name) ==
    IF Len(name) >= Len(DotJson) /\ Tail2(name, Len(name) - Len(DotJson)) = DotJson
    THEN SubSeq(name, 1, Len(name) - Len(DotJson))
    ELSE name

Succeeded == pc = "exited" /\ exit_status = 0

\* C9: in both scripts, after template_dash succeeds the output file is
\* out_dir/<template file name with CRUISE replaced by the cruise name>, and
\* the uid written to it is the template file name without .json and with
\* CRUISE replaced by the cruise name, which is the output file's name
\* without .json.
C9_UidIsOutputFileName ==
    Succeeded =>
        LET name == PathName(in_dash_file)
            path == OutDir \o <<"/">> \o Replace(name, CRUISE, cruise)
        IN  \E f \in files :
                /\ f.path = path
                /\ f.content.uid = Replace(WithoutDotJson(name), CRUISE, cruise)
                /\ f.content.uid = WithoutDotJson(PathName(path))

ScanFailed == script = "dash" /\ error \in {"EmptyData", "NoDataFound"}

\* C10: in template-dash.py, when read_date_range raises, no step of
\* template_dash after it runs: the files are as they were before the run (no
\* output file is created, an existing one keeps its content) and the run
\* ends with exit status 1.
C10_ScanErrorWritesNothing ==
    ScanFailed =>
        /\ files = files0
        /\ pc \in {"rdr_raised", "main_except", "exited"}
        /\ pc = "exited" => exit_status = 1

\* a run of template-dash.py over an earlier run's output that ended after
\* read_date_range raised NoDataFoundError on a file with data lines
C10_Witness ==
    /\ ScanFailed
    /\ pc = "exited"
    /\ files0 # {}
    /\ Len(lines) > HeaderSkip + 1

====
